---------------------------- MODULE Spec2Model ----------------------------
(***************************************************************************)
(* A model of the PDF-to-JPEG render tool: the page range parser and the   *)
(* page partitioner (src/src/page_range.rs), the range formatter and the   *)
(* process orchestrator (src/src/render.rs) and the worker render engine   *)
(* (src/src/render_worker.rs).                                             *)
(*                                                                         *)
(* A Rust string is a sequence of one-character strings.  The parser spec  *)
(* inputs never reach ten digits, so u32 overflow in str::parse cannot     *)
(* happen within the bounds and is not modelled.                           *)
(***************************************************************************)
EXTENDS Integers, Sequences, FiniteSets, TLC

\* ------------------------------------------------------------------ bounds
\* Longest input string handed to parse_page_range.
MaxLen == 5
\* Largest page count of a small document in the parser specification.
MaxPage == 2
\* Page count of the one document with two-digit page numbers.
BigPage == 12

\* The characters input strings are drawn from: four digits, the range
\* dash, the token separator, white space and the sign (a non-digit
\* wherever it does not lead a number).
Chars == {"0", "1", "2", "4", "-", ",", " ", "+"}

Strings(n) == UNION {[1..k -> Chars] : k \in 0..n}

\* ------------------------------------------------------- Rust std helpers
DigitChars == <<"0", "1", "2", "3", "4", "5", "6", "7", "8", "9">>

IsDigit(c) == \E d \in 1..10 : DigitChars[d] = c

DigitVal(c) == (CHOOSE d \in 1..10 : DigitChars[d] = c) - 1

\* str::split(','): the pieces between separators; "" splits into one "".
RECURSIVE SplitFrom(_, _, _)
SplitFrom(s, sep, cur) ==
  IF s = <<>> THEN <<cur>>
  ELSE IF Head(s) = sep THEN <<cur>> \o SplitFrom(Tail(s), sep, <<>>)
  ELSE SplitFrom(Tail(s), sep, Append(cur, Head(s)))

\* Mutant of Split: the empty string splits into no piece at all.
Split_empty_is_none(s, sep) ==
  IF s = <<>> THEN <<>> ELSE SplitFrom(s, sep, <<>>)

Split(s, sep) == SplitFrom(s, sep, <<>>)

\* str::trim(): leading and trailing white space removed.
RECURSIVE TrimStart(_)
TrimStart(s) ==
  IF s # <<>> /\ Head(s) = " " THEN TrimStart(Tail(s)) ELSE s

RECURSIVE TrimEnd(_)
TrimEnd(s) ==
  IF s # <<>> /\ s[Len(s)] = " " THEN TrimEnd(SubSeq(s, 1, Len(s) - 1)) ELSE s

Trim(s) == TrimEnd(TrimStart(s))

\* str::split_once('-'): split at the first dash, if there is one.
SplitOnce(s, sep) ==
  IF \E i \in 1..Len(s) : s[i] = sep
  THEN LET i == CHOOSE k \in 1..Len(s) :
                  s[k] = sep /\ \A j \in 1..(k - 1) : s[j] # sep
       IN  [found |-> TRUE, left |-> SubSeq(s, 1, i - 1),
            right |-> SubSeq(s, i + 1, Len(s))]
  ELSE [found |-> FALSE, left |-> s, right |-> <<>>]

RECURSIVE DigitsValue(_, _)
DigitsValue(s, acc) ==
  IF s = <<>> THEN acc ELSE DigitsValue(Tail(s), acc * 10 + DigitVal(Head(s)))

\* str::parse::<u32>(): an optional leading '+', then one or more decimal
\* digits; anything else (empty, a sign alone, a '-', a blank) is an error.
ParseU32(s) ==
  LET digits == IF s # <<>> /\ Head(s) = "+" THEN Tail(s) ELSE s
  IN  IF digits = <<>> \/ \E i \in 1..Len(digits) : ~IsDigit(digits[i])
      THEN [ok |-> FALSE, val |-> 0]
      ELSE [ok |-> TRUE, val |-> DigitsValue(digits, 0)]

\* u32::to_string(): the decimal digits, most significant first, no padding.
RECURSIVE to_string(_)
to_string(n) ==
  IF n < 10 THEN <<DigitChars[n + 1]>>
  ELSE Append(to_string(n \div 10), DigitChars[(n % 10) + 1])

\* start..=end as a sequence.
RangeInclusive(a, b) == [k \in 1..(b - a + 1) |-> a + k - 1]

\* Vec::sort_unstable on u32: ascending order (insertion sort).
RECURSIVE InsertSorted(_, _)
InsertSorted(s, x) ==
  IF s = <<>> THEN <<x>>
  ELSE IF x <= Head(s) THEN <<x>> \o s
  ELSE <<Head(s)>> \o InsertSorted(Tail(s), x)

RECURSIVE sort_unstable(_)
sort_unstable(s) == IF s = <<>> THEN <<>> ELSE InsertSorted(sort_unstable(Tail(s)), Head(s))

\* Mutant of dedup: duplicates are kept.
dedup_keeps_all(s) == s

\* Vec::dedup: consecutive equal elements collapse to the first.
RECURSIVE dedup(_)
dedup(s) ==
  IF Len(s) <= 1 THEN s
  ELSE IF s[1] = s[2] THEN dedup(Tail(s))
  ELSE <<s[1]>> \o dedup(Tail(s))

\* --------------------------------------------------------- page_range.rs
OkPages(pages) == [ok |-> TRUE, pages |-> pages, err |-> "none", msg |-> "none"]

ErrInvalidArgs(msg) ==
  [ok |-> FALSE, pages |-> <<>>, err |-> "InvalidArgs", msg |-> msg]

\* The checks on a parsed range start-end: "ok" or the error message.
check_range(start, end, maxp) ==
  IF start = 0 \/ end = 0 THEN "page numbers are 1-based"
  ELSE IF start > end THEN "invalid range"
  ELSE IF end > maxp THEN "exceeds page count"
  ELSE "ok"

\* Mutant of check_page: the comparison with the page count is missing.
check_page_no_max(page, maxp) ==
  IF page = 0 THEN "page numbers are 1-based" ELSE "ok"

\* The checks on a parsed single page: "ok" or the error message.
check_page(page, maxp) ==
  IF page = 0 THEN "page numbers are 1-based"
  ELSE IF page > maxp THEN "exceeds page count"
  ELSE "ok"

\* The loop of parse_page_range over the comma-separated parts; the first
\* bad part returns the error, the parts after it are never looked at.
RECURSIVE parse_parts(_, _, _, _)
parse_parts(parts, i, maxp, pages) ==
  IF i > Len(parts) THEN OkPages(dedup(sort_unstable(pages)))
  ELSE
    LET part == Trim(parts[i])
        so   == SplitOnce(part, "-")
    IN  IF so.found
        THEN LET start == ParseU32(Trim(so.left))
                 end   == ParseU32(Trim(so.right))
             IN  IF ~start.ok THEN ErrInvalidArgs("invalid page number")
                 ELSE IF ~end.ok THEN ErrInvalidArgs("invalid page number")
                 ELSE IF check_range(start.val, end.val, maxp) # "ok"
                   THEN ErrInvalidArgs(check_range(start.val, end.val, maxp))
                 ELSE parse_parts(parts, i + 1, maxp,
                                  pages \o RangeInclusive(start.val, end.val))
        ELSE LET page == ParseU32(part)
             IN  IF ~page.ok THEN ErrInvalidArgs("invalid page number")
                 ELSE IF check_page(page.val, maxp) # "ok"
                   THEN ErrInvalidArgs(check_page(page.val, maxp))
                 ELSE parse_parts(parts, i + 1, maxp, Append(pages, page.val))

parse_page_range(input, maxp) == parse_parts(Split(input, ","), 1, maxp, <<>>)

\* Mutant of divide_loop: the next chunk starts at the end of this one.
RECURSIVE divide_loop_overlap(_, _, _, _, _)
divide_loop_overlap(i, workers, base_size, remainder, start) ==
  IF i >= workers THEN <<>>
  ELSE LET chunk == base_size + (IF i < remainder THEN 1 ELSE 0)
           end   == start + chunk - 1
       IN  <<(<<start, end>>)>>
             \o divide_loop_overlap(i + 1, workers, base_size, remainder, end)

\* Mutant of divide_loop: the remainder goes to the last chunks.
RECURSIVE divide_loop_back(_, _, _, _, _)
divide_loop_back(i, workers, base_size, remainder, start) ==
  IF i >= workers THEN <<>>
  ELSE LET chunk == base_size + (IF i >= workers - remainder THEN 1 ELSE 0)
           end   == start + chunk - 1
       IN  <<(<<start, end>>)>>
             \o divide_loop_back(i + 1, workers, base_size, remainder, end + 1)

\* divide_pages: the chunks (start, end), 1-based positions in the page list.
RECURSIVE divide_loop(_, _, _, _, _)
divide_loop(i, workers, base_size, remainder, start) ==
  IF i >= workers THEN <<>>
  ELSE LET chunk == base_size + (IF i < remainder THEN 1 ELSE 0)
           end   == start + chunk - 1
       IN  <<(<<start, end>>)>>
             \o divide_loop(i + 1, workers, base_size, remainder, end + 1)

Min(a, b) == IF a <= b THEN a ELSE b

divide_pages(total, nworkers) ==
  IF total = 0 \/ nworkers = 0 THEN <<>>
  ELSE LET workers == Min(nworkers, total)
       IN  divide_loop(0, workers, total \div workers, total % workers, 1)

\* ------------------------------------------------- render.rs: formatting
\* Mutant of push_range: a run is written with an exclusive end.
push_range_half_open(parts, start, end) ==
  IF start = end THEN Append(parts, to_string(start))
  ELSE Append(parts, to_string(start) \o <<"-">> \o to_string(end + 1))

\* push_range: a single page stays bare, a run becomes start-end.
push_range(parts, start, end) ==
  IF start = end THEN Append(parts, to_string(start))
  ELSE Append(parts, to_string(start) \o <<"-">> \o to_string(end))

\* [String]::join(",")
RECURSIVE Join(_, _)
Join(parts, sep) ==
  IF parts = <<>> THEN <<>>
  ELSE IF Len(parts) = 1 THEN parts[1]
  ELSE parts[1] \o <<sep>> \o Join(Tail(parts), sep)

\* The loop of format_page_list over pages[1..]; returns the parts,
\* the trailing run included.
RECURSIVE format_loop(_, _, _, _, _)
format_loop(pages, i, parts, range_start, range_end) ==
  IF i > Len(pages) THEN push_range(parts, range_start, range_end)
  ELSE IF pages[i] = range_end + 1
    THEN format_loop(pages, i + 1, parts, range_start, pages[i])
  ELSE format_loop(pages, i + 1, push_range(parts, range_start, range_end),
                   pages[i], pages[i])

format_page_list(pages) ==
  IF pages = <<>> THEN <<>>
  ELSE Join(format_loop(pages, 2, <<>>, pages[1], pages[1]), ",")

\* ------------------------------------------------------ render_worker.rs
\* The PDF engine is a black box; a page of the document is what the engine
\* reports about it and what the calls on it return:
\*   fetch_ok   document.pages().get(index) succeeds
\*   n_objects  page.objects().len()
\*   obj        objects.get(0): "image", "text" or "unreadable" (an Err)
\*   filters    the names of the image object's filter chain
\*   raw        get_raw_image_data(): "bytes", "empty" or "error"
\*   render_ok  page.render_with_config succeeds
\*   encode_ok  the JPEG encoder succeeds
\*   write_ok   the output file can be created and written
\*   has_bleed  page.boundaries().bleed() is Ok
Page(fetch_ok, n_objects, obj, filters, raw, render_ok, encode_ok, write_ok, has_bleed) ==
  [fetch_ok |-> fetch_ok, n_objects |-> n_objects, obj |-> obj,
   filters |-> filters, raw |-> raw, render_ok |-> render_ok,
   encode_ok |-> encode_ok, write_ok |-> write_ok, has_bleed |-> has_bleed]

DCT == <<"DCTDecode">>

\* The pages documents are made of: each content the code tells apart, and
\* each call that can fail.
PageDescs ==
  { \* a page the engine cannot fetch
    Page(FALSE, 0, "unreadable", <<>>, "error", FALSE, TRUE, TRUE, FALSE),
    \* two objects: renders; with a bleed box; render, encode, write failing
    Page(TRUE, 2, "text", <<>>, "error", TRUE, TRUE, TRUE, FALSE),
    Page(TRUE, 2, "text", <<>>, "error", TRUE, TRUE, TRUE, TRUE),
    Page(TRUE, 2, "text", <<>>, "error", FALSE, TRUE, TRUE, FALSE),
    Page(TRUE, 2, "text", <<>>, "error", TRUE, FALSE, TRUE, FALSE),
    Page(TRUE, 2, "text", <<>>, "error", TRUE, TRUE, FALSE, FALSE),
    \* two objects, the first a JPEG image
    Page(TRUE, 2, "image", DCT, "bytes", TRUE, TRUE, TRUE, FALSE),
    \* one object that is no image, one object that cannot be read
    Page(TRUE, 1, "text", <<>>, "error", TRUE, TRUE, TRUE, FALSE),
    Page(TRUE, 1, "unreadable", <<>>, "error", TRUE, TRUE, TRUE, FALSE),
    \* one image that is not exactly DCTDecode: another filter, two, none
    Page(TRUE, 1, "image", <<"FlateDecode">>, "bytes", TRUE, TRUE, TRUE, FALSE),
    Page(TRUE, 1, "image", <<"FlateDecode", "DCTDecode">>, "bytes", TRUE, TRUE, TRUE, FALSE),
    Page(TRUE, 1, "image", <<>>, "bytes", TRUE, TRUE, TRUE, FALSE),
    \* one JPEG image: extracts; with a bleed box; write failing, no data
    Page(TRUE, 1, "image", DCT, "bytes", TRUE, TRUE, TRUE, FALSE),
    Page(TRUE, 1, "image", DCT, "bytes", TRUE, TRUE, TRUE, TRUE),
    Page(TRUE, 1, "image", DCT, "bytes", TRUE, TRUE, FALSE, FALSE),
    Page(TRUE, 1, "image", DCT, "empty", TRUE, TRUE, TRUE, FALSE),
    Page(TRUE, 1, "image", DCT, "error", TRUE, TRUE, TRUE, FALSE) }

\* The build has the Cargo feature "vips" off (the default): encode_jpeg_vips
\* is the stub that returns InvalidArgs.
VipsFeature == FALSE

\* format!("page-{page_num:04}.jpg"): the decimal digits, zero-padded to at
\* least four.
Pad4(digits) ==
  IF Len(digits) >= 4 THEN digits
  ELSE [i \in 1..(4 - Len(digits)) |-> "0"] \o digits

FileName(page_num) ==
  <<"p", "a", "g", "e", "-">> \o Pad4(to_string(page_num)) \o <<".", "j", "p", "g">>

\* The output directory: per file name its content, how many times it was
\* opened for writing and by which execution units.
NoFile == [data |-> <<"absent">>, count |-> 0, writers |-> {}]

write_file(fs, name, data, unit) ==
  [fs EXCEPT ![name] = [data |-> data, count |-> @.count + 1,
                        writers |-> @.writers \cup {unit}]]

\* The raw encoded bytes of the image object of a page.
RawBytes(page_num) == <<"raw", page_num>>

\* The state of one render_pages invocation (in an execution unit).
EngineStart(pages, opts, npages) ==
  [state |-> "idle", pages |-> pages, opts |-> opts, idx |-> 1,
   pages_rendered |-> 0, pages_extracted |-> 0, errors |-> <<>>,
   crop |-> [p \in 1..npages |-> "crop"], log |-> <<>>]

\* Mutant of apply_bleed_box: the bleed box of the page overrides the crop
\* box of every page of the document.
apply_bleed_box_document_wide(crop, d, page_num) ==
  IF ~d[page_num].fetch_ok THEN crop
  ELSE IF ~d[page_num].has_bleed THEN crop
  ELSE [q \in DOMAIN crop |-> "bleed"]

\* apply_bleed_box: the crop box of the page becomes its bleed box, when the
\* page can be fetched and has one.
apply_bleed_box(crop, d, page_num) ==
  IF ~d[page_num].fetch_ok THEN crop
  ELSE IF ~d[page_num].has_bleed THEN crop
  ELSE [crop EXCEPT ![page_num] = "bleed"]

\* Mutant of is_jpeg_encoded: the last filter of the chain is looked at,
\* whatever the length of the chain.
is_jpeg_encoded_last_filter(pg) ==
  IF Len(pg.filters) = 0 THEN FALSE ELSE pg.filters[Len(pg.filters)] = "DCTDecode"

\* is_jpeg_encoded: exactly one filter, and it is DCTDecode.
is_jpeg_encoded(pg) ==
  IF Len(pg.filters) # 1 THEN FALSE ELSE pg.filters[1] = "DCTDecode"

\* write_raw_jpeg: Ok, or the error; write tells whether the file was opened.
write_raw_jpeg(pg, page_num) ==
  IF pg.raw = "error"
    THEN [ok |-> FALSE, msg |-> "extract image data", write |-> FALSE, data |-> <<>>]
  ELSE IF pg.raw = "empty"
    THEN [ok |-> FALSE, msg |-> "empty image data", write |-> FALSE, data |-> <<>>]
  ELSE IF ~pg.write_ok
    THEN [ok |-> FALSE, msg |-> "I/O error", write |-> TRUE,
          data |-> <<"partial", page_num>>]
  ELSE [ok |-> TRUE, msg |-> "none", write |-> TRUE, data |-> RawBytes(page_num)]

\* try_extract_jpeg: None unless the page is one image object with the one
\* filter DCTDecode; otherwise Some(write_raw_jpeg(..)).
try_extract_jpeg(pg, page_num) ==
  IF pg.n_objects # 1 THEN [some |-> FALSE]
  ELSE IF pg.obj = "unreadable" THEN [some |-> FALSE]
  ELSE IF pg.obj # "image" THEN [some |-> FALSE]
  ELSE IF ~is_jpeg_encoded(pg) THEN [some |-> FALSE]
  ELSE [some |-> TRUE, res |-> write_raw_jpeg(pg, page_num)]

\* encode_jpeg_image / encode_jpeg_vips on the rasterized image.
encode_jpeg(pg, page_num, box, opts) ==
  IF opts.encoder = "Vips" /\ ~VipsFeature
    THEN [ok |-> FALSE, msg |-> "--encoder vips requires building with --features vips",
          write |-> FALSE, data |-> <<>>]
  ELSE IF ~pg.write_ok
    THEN [ok |-> FALSE, msg |-> "I/O error", write |-> TRUE,
          data |-> <<"partial", page_num>>]
  ELSE IF ~pg.encode_ok
    THEN [ok |-> FALSE, msg |-> "JPEG encode failed", write |-> TRUE,
          data |-> <<"partial", page_num>>]
  ELSE [ok |-> TRUE, msg |-> "none", write |-> TRUE,
        data |-> <<"jpeg", page_num, box, opts.target_width, opts.quality>>]

\* render_page_to_jpeg: rasterize with the page's current crop box, encode.
render_page_to_jpeg(pg, page_num, box, opts) ==
  IF ~pg.render_ok
    THEN [ok |-> FALSE, msg |-> "render failed", write |-> FALSE, data |-> <<>>,
          rasterized |-> FALSE]
  ELSE LET enc == encode_jpeg(pg, page_num, box, opts)
       IN  [ok |-> enc.ok, msg |-> enc.msg, write |-> enc.write, data |-> enc.data,
            rasterized |-> TRUE]

\* Mutant of page_failed: the error is returned and the batch is over.
page_failed_aborts(e, page_num, prefix, msg, rasterized) ==
  [e EXCEPT !.errors = Append(@, [prefix |-> prefix, n |-> page_num, msg |-> msg]),
            !.state = "aborted"]

\* The outcomes of one iteration of the loop of render_pages.
page_failed(e, page_num, prefix, msg, rasterized) ==
  [e EXCEPT !.errors = Append(@, [prefix |-> prefix, n |-> page_num, msg |-> msg]),
            !.log = Append(@, [page |-> page_num, outcome |-> "Failed",
                               rasterized |-> rasterized]),
            !.idx = @ + 1]

page_extracted(e, page_num) ==
  [e EXCEPT !.pages_extracted = @ + 1,
            !.log = Append(@, [page |-> page_num, outcome |-> "Extracted",
                               rasterized |-> FALSE]),
            !.idx = @ + 1]

page_rendered(e, page_num) ==
  [e EXCEPT !.pages_rendered = @ + 1,
            !.log = Append(@, [page |-> page_num, outcome |-> "Rendered",
                               rasterized |-> TRUE]),
            !.idx = @ + 1]

\* Mutant of output_name: the file is named after the position in the list.
output_name_by_position(e, page_num) == FileName(e.idx)

\* The output file of a page: named after its 1-based page number.
output_name(e, page_num) == FileName(page_num)

\* After a Some(..) from try_extract_jpeg: count the page or record the
\* error, and continue with the next page either way.
after_extract(e, fs, page_num, res, unit) ==
  LET fs1 == IF res.write THEN write_file(fs, output_name(e, page_num), res.data, unit)
             ELSE fs
  IN  IF res.ok THEN [e |-> page_extracted(e, page_num), files |-> fs1]
      ELSE [e |-> page_failed(e, page_num, "page extract", res.msg, FALSE),
            files |-> fs1]

\* The full render of a page.
after_render(e, fs, page_num, res, unit) ==
  LET fs1 == IF res.write THEN write_file(fs, output_name(e, page_num), res.data, unit)
             ELSE fs
  IN  IF res.ok THEN [e |-> page_rendered(e, page_num), files |-> fs1]
      ELSE [e |-> page_failed(e, page_num, "page", res.msg, res.rasterized),
            files |-> fs1]

\* Mutant of wants_extract: the flag is ignored.
wants_extract_never(opts) == FALSE

\* Whether this iteration tries the extraction.
wants_extract(opts) == opts.extract_images

\* One iteration of the loop of render_pages, on the page e.pages[e.idx].
render_one(e, fs, d, unit) ==
  LET page_num == e.pages[e.idx]
      pg       == d[page_num]
      crop1    == IF e.opts.box_type = "Bleed"
                  THEN apply_bleed_box(e.crop, d, page_num) ELSE e.crop
      e1       == [e EXCEPT !.crop = crop1]
  IN  IF ~pg.fetch_ok
        THEN [e |-> page_failed(e1, page_num, "page", "fetch", FALSE), files |-> fs]
      ELSE LET x == IF wants_extract(e.opts) THEN try_extract_jpeg(pg, page_num)
                    ELSE [some |-> FALSE]
           IN  IF x.some THEN after_extract(e1, fs, page_num, x.res, unit)
               ELSE after_render(e1, fs, page_num,
                      render_page_to_jpeg(pg, page_num, crop1[page_num], e.opts), unit)

\* WorkerResult { pages_rendered, pages_extracted, errors }
WorkerResult(e) ==
  [pages_rendered |-> e.pages_rendered, pages_extracted |-> e.pages_extracted,
   errors |-> e.errors]

\* ------------------------------------------------------------------ state
VARIABLES
  input,         \* the string handed to parse_page_range
  max_page,      \* the page count it is parsed against
  parsed,        \* what parse_page_range returned for input
  worker_pages,  \* a contiguous slice of parsed.pages, as handed to a worker
  pages_str,     \* format_page_list(worker_pages)
  reparsed,      \* what the worker's parse_page_range returned for pages_str
  total_pages,   \* divide_pages: first argument
  num_workers,   \* divide_pages: second argument
  ranges,        \* what divide_pages returned
  doc,           \* the PDF document: a sequence of pages (see PageDescs)
  open_result,   \* what opening the document yields: "ok" or the error
  files,         \* the output directory
  eng,           \* per execution unit, its render_pages invocation
  cli,           \* the arguments of the render command
  orch,          \* the orchestrator: render::run and its callees
  procs          \* per execution unit, its worker process

parserVars == <<input, max_page, parsed, worker_pages, pages_str, reparsed>>
divideVars == <<total_pages, num_workers, ranges>>
engineVars == <<doc, open_result, files, eng>>
runVars == <<cli, orch, procs>>
vars == <<parserVars, divideVars, engineVars, runVars>>

\* The value of a result variable before the call that sets it.
NotCalled == [ok |-> FALSE, pages |-> <<>>, err |-> "not called", msg |-> "none"]
NoRanges == <<(<<0, 0>>)>>

ParserIdle ==
  /\ input = <<>> /\ max_page = 0 /\ parsed = NotCalled
  /\ worker_pages = <<>> /\ pages_str = <<>> /\ reparsed = NotCalled

DivideIdle == total_pages = 0 /\ num_workers = 0 /\ ranges = NoRanges

EngineIdle == doc = <<>> /\ open_result = "ok" /\ files = <<>> /\ eng = <<>>

RunIdle == cli = <<>> /\ orch = <<>> /\ procs = <<>>

\* --------------------------------------- specification: parser, formatter
PageCounts == (0..MaxPage) \cup {BigPage}

ParserInit ==
  /\ input \in Strings(MaxLen)
  /\ max_page \in PageCounts
  /\ parsed = NotCalled
  /\ worker_pages = <<>> /\ pages_str = <<>> /\ reparsed = NotCalled
  /\ DivideIdle /\ EngineIdle /\ RunIdle

\* build_render_plan's call: parse_page_range(range_str, total_pages).
CallParse ==
  /\ parsed = NotCalled
  /\ parsed' = parse_page_range(input, max_page)
  /\ UNCHANGED <<input, max_page, worker_pages, pages_str, reparsed, divideVars, engineVars, runVars>>

\* run_multi_process: a contiguous slice of the page list is formatted.
CallFormat ==
  /\ parsed.ok /\ worker_pages = <<>>
  /\ \E a \in 1..Len(parsed.pages) : \E b \in a..Len(parsed.pages) :
       /\ worker_pages' = SubSeq(parsed.pages, a, b)
       /\ pages_str' = format_page_list(SubSeq(parsed.pages, a, b))
  /\ UNCHANGED <<input, max_page, parsed, reparsed, divideVars, engineVars, runVars>>

\* run_worker: the range string is parsed again, against the same document.
CallReparse ==
  /\ worker_pages # <<>> /\ reparsed = NotCalled
  /\ reparsed' = parse_page_range(pages_str, max_page)
  /\ UNCHANGED <<input, max_page, parsed, worker_pages, pages_str, divideVars, engineVars, runVars>>

ParserNext == CallParse \/ CallFormat \/ CallReparse

ParserSpec == ParserInit /\ [][ParserNext]_vars

\* ------------------------------------------- specification: partitioner
MaxTotal == 12
MaxWorkers == 7

DivideInit ==
  /\ total_pages \in 0..MaxTotal
  /\ num_workers \in 0..MaxWorkers
  /\ ranges = NoRanges
  /\ ParserIdle /\ EngineIdle /\ RunIdle

CallDivide ==
  /\ ranges = NoRanges
  /\ ranges' = divide_pages(total_pages, num_workers)
  /\ UNCHANGED <<total_pages, num_workers, parserVars, engineVars, runVars>>

DivideNext == CallDivide

DivideSpec == DivideInit /\ [][DivideNext]_vars

\* ------------------------------------------ specification: render engine
\* Pages of the document in the engine specification.
NPages == 2

\* The page lists render_pages is called with: strictly increasing,
\* non-empty, within the document (what parse_page_range returns).
PageLists(n) ==
  {l \in UNION {[1..k -> 1..n] : k \in 1..n} :
     \A i \in 1..(Len(l) - 1) : l[i] < l[i + 1]}

OptionSets ==
  [target_width : {2560}, quality : {100}, box_type : {"Crop", "Bleed"},
   extract_images : BOOLEAN, encoder : {"Image", "Vips"}]

OpenResults == {"ok", "PdfiumNotFound", "PdfInvalid"}

FileNames(n) == {FileName(p) : p \in 1..n}

\* The unit that runs render_pages in the calling process.
InProcess == 0

RenderInit ==
  /\ doc \in [1..NPages -> PageDescs]
  /\ open_result \in OpenResults
  /\ files = [f \in FileNames(NPages) |-> NoFile]
  /\ \E pages \in PageLists(NPages) : \E opts \in OptionSets :
       eng = [u \in {InProcess} |-> EngineStart(pages, opts, NPages)]
  /\ ParserIdle /\ DivideIdle /\ RunIdle

\* render_pages up to the loop: load_pdfium and load_pdf_from_file; an error
\* of either is returned to the caller.
EngineOpen(u) ==
  /\ eng[u].state = "idle"
  /\ eng' = [eng EXCEPT ![u].state =
               IF open_result = "ok" THEN "running" ELSE open_result]
  /\ UNCHANGED <<doc, open_result, files>>

\* One iteration of the loop of render_pages.
EnginePage(u) ==
  /\ eng[u].state = "running"
  /\ eng[u].idx <= Len(eng[u].pages)
  /\ LET r == render_one(eng[u], files, doc, u)
     IN  /\ eng' = [eng EXCEPT ![u] = r.e]
         /\ files' = r.files
  /\ UNCHANGED <<doc, open_result>>

\* The loop is over: render_pages returns Ok(WorkerResult).
EngineReturn(u) ==
  /\ eng[u].state = "running"
  /\ eng[u].idx > Len(eng[u].pages)
  /\ eng' = [eng EXCEPT ![u].state = "done"]
  /\ UNCHANGED <<doc, open_result, files>>

RenderOpen == EngineOpen(InProcess) /\ UNCHANGED <<parserVars, divideVars, runVars>>
RenderPage == EnginePage(InProcess) /\ UNCHANGED <<parserVars, divideVars, runVars>>
RenderReturn == EngineReturn(InProcess) /\ UNCHANGED <<parserVars, divideVars, runVars>>

RenderNext == RenderOpen \/ RenderPage \/ RenderReturn

RenderSpec == RenderInit /\ [][RenderNext]_vars

\* ---------------------------------------- specification: orchestrated run
\* Pages of the largest document, and the largest --workers, of a run.
NRunPages == 2
MaxRunWorkers == 2

None == [some |-> FALSE, val |-> <<>>]
Some(v) == [some |-> TRUE, val |-> v]

\* The pages documents of a run are made of: a page that renders (it has a
\* bleed box), a single-JPEG page, a page whose rasterization fails.
RunPageDescs ==
  { Page(TRUE, 2, "text", <<>>, "error", TRUE, TRUE, TRUE, TRUE),
    Page(TRUE, 1, "image", DCT, "bytes", TRUE, TRUE, TRUE, FALSE),
    Page(TRUE, 2, "text", <<>>, "error", FALSE, TRUE, TRUE, FALSE) }

\* The values of --pages: absent, the range string of every page list, the
\* empty string, page 0.
RunPageSpecs ==
  {None} \cup {Some(format_page_list(l)) : l \in PageLists(NRunPages)}
         \cup {Some(<<>>), Some(<<"0">>)}

\* The render command of main.rs (Commands::Render).
RunClis ==
  [pages : RunPageSpecs, workers : 0..MaxRunWorkers,
   target_width : {2560}, quality : {100},
   box_type : {"Crop", "Bleed"}, extract_images : BOOLEAN]

\* The options render.rs hands to render_pages: run takes target_width,
\* quality and box_type; it has no extract_images and no encoder parameter,
\* so those two are their defaults.
run_opts(c) ==
  [target_width |-> c.target_width, quality |-> c.quality,
   box_type |-> c.box_type, extract_images |-> FALSE, encoder |-> "Image"]

\* main: the options Commands::Render hands to render::run; the command has
\* no encoder option, so the encoder is the default.
cli_opts(c) ==
  [target_width |-> c.target_width, quality |-> c.quality,
   box_type |-> c.box_type, extract_images |-> c.extract_images,
   encoder |-> "Image"]

\* Mutant of plan_workers: the requested count, whatever the page list.
plan_workers_requested(nworkers, page_list) == nworkers

\* build_render_plan: num_workers.min(page_list.len()).
plan_workers(nworkers, page_list) == Min(nworkers, Len(page_list))

\* Mutant of build_render_plan: a document without pages is not rejected.
build_render_plan_no_empty_check(c, d, opened) ==
  IF opened # "ok" THEN [ok |-> FALSE, err |-> opened]
  ELSE LET pr == IF c.pages.some THEN parse_page_range(c.pages.val, Len(d))
                 ELSE OkPages(RangeInclusive(1, Len(d)))
       IN  IF ~pr.ok THEN [ok |-> FALSE, err |-> pr.err]
           ELSE [ok |-> TRUE, err |-> "none", page_list |-> pr.pages,
                 effective_workers |-> plan_workers(c.workers, pr.pages)]

\* build_render_plan: the page list and the effective workers, or the error.
build_render_plan(c, d, opened) ==
  IF opened # "ok" THEN [ok |-> FALSE, err |-> opened]
  ELSE IF Len(d) = 0 THEN [ok |-> FALSE, err |-> "PdfInvalid"]
  ELSE LET pr == IF c.pages.some THEN parse_page_range(c.pages.val, Len(d))
                 ELSE OkPages(RangeInclusive(1, Len(d)))
       IN  IF ~pr.ok THEN [ok |-> FALSE, err |-> pr.err]
           ELSE [ok |-> TRUE, err |-> "none", page_list |-> pr.pages,
                 effective_workers |-> plan_workers(c.workers, pr.pages)]

\* spawn_worker: the command line of a worker: render-worker <pdf> -o <dir>
\* --pages .. --target-width .. --quality .. --box ..
spawn_args(pages, c) ==
  [pages |-> pages, target_width |-> c.target_width, quality |-> c.quality,
   box |-> IF c.box_type = "Crop" THEN "crop" ELSE "bleed",
   extract_images |-> FALSE]

\* Commands::RenderWorker and run_worker: the options of the worker's
\* render_pages, from its command line.
worker_opts(args) ==
  [target_width |-> args.target_width, quality |-> args.quality,
   box_type |-> IF args.box = "crop" THEN "Crop" ELSE "Bleed",
   extract_images |-> args.extract_images, encoder |-> "Image"]

\* A worker process: not spawned yet. overtook records, when the process
\* exits, whether a worker spawned before it was still alive: the order in
\* which the children complete is the operating system's, not the spawn order.
NoProc ==
  [state |-> "none", args |-> spawn_args(<<>>, [target_width |-> 0, quality |-> 0,
                                                 box_type |-> "Crop"]),
   success |-> FALSE, stdout |-> <<>>, stderr |-> "none", overtook |-> FALSE]

\* serde_json::to_string(&WorkerResult): one JSON document on stdout.
to_json(result) == <<result>>

\* serde_json::from_str::<WorkerOutput>(&stdout): the text must be one JSON
\* document; pages_rendered and errors are read, other fields are ignored.
from_json(stdout) ==
  IF Len(stdout) # 1 THEN [ok |-> FALSE]
  ELSE [ok |-> TRUE, pages_rendered |-> stdout[1].pages_rendered,
        errors |-> stdout[1].errors]

\* The unit of the child with index i of collect_worker_results' enumerate.
Unit(i) == i + 1

RunUnits == 1..MaxRunWorkers

OrchStart ==
  [pc |-> "start", page_list |-> <<>>, effective_workers |-> 0, ranges |-> <<>>,
   spawned |-> 0, collected |-> 0, total_rendered |-> 0, all_errors |-> <<>>,
   summary |-> <<>>, printed |-> <<>>, result |-> "none", dir_created |-> FALSE]

RunInit ==
  /\ \E n \in 0..NRunPages : doc \in [1..n -> RunPageDescs]
  /\ open_result \in OpenResults
  /\ files = [f \in FileNames(NRunPages) |-> NoFile]
  /\ cli \in RunClis
  /\ orch = OrchStart
  /\ eng = [u \in {InProcess} \cup RunUnits |-> EngineStart(<<>>, run_opts(cli), Len(doc))]
  /\ procs = [u \in RunUnits |-> NoProc]
  /\ ParserIdle /\ DivideIdle

Fail(err) == [orch EXCEPT !.pc = "done", !.result = err]

\* run: build_render_plan(..)?
BuildPlan ==
  /\ orch.pc = "start"
  /\ LET plan == build_render_plan(cli, doc, open_result)
     IN  orch' = IF ~plan.ok THEN Fail(plan.err)
                 ELSE [orch EXCEPT !.pc = "planned",
                                   !.page_list = plan.page_list,
                                   !.effective_workers = plan.effective_workers]
  /\ UNCHANGED <<cli, procs, parserVars, divideVars, engineVars>>

\* run: create_dir_all(output_dir)?, then the choice of the mode; in the
\* single-process mode render_pages is called with the whole list.
CreateDir ==
  /\ orch.pc = "planned"
  /\ orch' = [orch EXCEPT !.dir_created = TRUE,
                          !.pc = IF orch.effective_workers <= 1 THEN "single"
                                 ELSE "multi"]
  /\ eng' = IF orch.effective_workers <= 1
            THEN [eng EXCEPT ![InProcess] =
                    EngineStart(orch.page_list, run_opts(cli), Len(doc))]
            ELSE eng
  /\ UNCHANGED <<cli, procs, parserVars, divideVars, doc, open_result, files>>

CreateDirFails ==
  /\ orch.pc = "planned"
  /\ orch' = Fail("Io")
  /\ UNCHANGED <<cli, procs, parserVars, divideVars, engineVars>>

\* run_single_process: render_pages in this process.
SingleOpen ==
  /\ orch.pc = "single" /\ EngineOpen(InProcess)
  /\ UNCHANGED <<parserVars, divideVars, runVars>>

SinglePage ==
  /\ orch.pc = "single" /\ EnginePage(InProcess)
  /\ UNCHANGED <<parserVars, divideVars, runVars>>

SingleReturn ==
  /\ orch.pc = "single" /\ EngineReturn(InProcess)
  /\ UNCHANGED <<parserVars, divideVars, runVars>>

\* run_single_process: render_pages(..)? and Ok((pages_rendered, errors)).
SingleDone ==
  /\ orch.pc = "single"
  /\ eng[InProcess].state \notin {"idle", "running"}
  /\ orch' = IF eng[InProcess].state # "done" THEN Fail(eng[InProcess].state)
             ELSE [orch EXCEPT !.pc = "summary",
                     !.total_rendered = WorkerResult(eng[InProcess]).pages_rendered,
                     !.all_errors = WorkerResult(eng[InProcess]).errors]
  /\ UNCHANGED <<cli, procs, parserVars, divideVars, engineVars>>

\* run_multi_process: divide_pages and current_exe()?.
StartMulti ==
  /\ orch.pc = "multi"
  /\ orch' = [orch EXCEPT !.pc = "spawning",
                !.ranges = divide_pages(Len(orch.page_list), orch.effective_workers)]
  /\ UNCHANGED <<cli, procs, parserVars, divideVars, engineVars>>

CurrentExeFails ==
  /\ orch.pc = "multi"
  /\ orch' = Fail("Io")
  /\ UNCHANGED <<cli, procs, parserVars, divideVars, engineVars>>

\* Mutant of chunk_pages: the slice starts at the previous chunk's last page.
chunk_pages_off_by_one(page_list, rngs, i) ==
  SubSeq(page_list, IF rngs[i + 1][1] > 1 THEN rngs[i + 1][1] - 1 ELSE 1,
         rngs[i + 1][2])

\* The pages of the chunk with index i (0-based), and their range string.
chunk_pages(page_list, rngs, i) ==
  SubSeq(page_list, rngs[i + 1][1], rngs[i + 1][2])

\* run_multi_process: the next chunk's worker is spawned; after the last
\* one collect_worker_results is entered.
Spawn ==
  /\ orch.pc = "spawning"
  /\ orch.spawned < Len(orch.ranges)
  /\ LET i == orch.spawned
         pages == format_page_list(chunk_pages(orch.page_list, orch.ranges, i))
     IN  /\ procs' = [procs EXCEPT ![Unit(i)] =
                        [NoProc EXCEPT !.state = "spawned",
                                       !.args = spawn_args(pages, cli)]]
         /\ orch' = [orch EXCEPT !.spawned = i + 1,
                       !.pc = IF i + 1 = Len(orch.ranges) THEN "collecting"
                              ELSE "spawning"]
  /\ UNCHANGED <<cli, parserVars, divideVars, engineVars>>

\* spawn() fails: the error is returned through collect::<Result<..>>()?,
\* the children spawned so far are dropped, neither killed nor waited for.
SpawnFails ==
  /\ orch.pc = "spawning"
  /\ orch.spawned < Len(orch.ranges)
  /\ orch' = Fail("Io")
  /\ UNCHANGED <<cli, procs, parserVars, divideVars, engineVars>>

\* Mutant of collect_one: a non-zero exit ends the collection; the workers
\* after it are not folded in.
collect_one_fail_fast(o, i, pr) ==
  LET exit_errors == IF ~pr.success
                     THEN <<[prefix |-> "worker", n |-> i, msg |-> pr.stderr]>>
                     ELSE <<>>
      out == from_json(pr.stdout)
  IN  [o EXCEPT !.collected = IF pr.success THEN i + 1 ELSE o.spawned,
                !.total_rendered = IF out.ok THEN @ + out.pages_rendered ELSE @,
                !.all_errors = IF out.ok THEN @ \o exit_errors \o out.errors
                               ELSE @ \o exit_errors,
                !.pc = IF i + 1 = o.spawned \/ ~pr.success THEN "summary"
                       ELSE "collecting"]

\* Mutant of collect_one: the exit status of the child is not looked at.
collect_one_ignores_exit(o, i, pr) ==
  LET out == from_json(pr.stdout)
  IN  [o EXCEPT !.collected = i + 1,
                !.total_rendered = IF out.ok THEN @ + out.pages_rendered ELSE @,
                !.all_errors = IF out.ok THEN @ \o out.errors ELSE @,
                !.pc = IF i + 1 = o.spawned THEN "summary" ELSE "collecting"]

\* Mutant of collect_one: what a worker contributes is put in front of the
\* errors collected so far.
collect_one_prepend(o, i, pr) ==
  LET exit_errors == IF ~pr.success
                     THEN <<[prefix |-> "worker", n |-> i, msg |-> pr.stderr]>>
                     ELSE <<>>
      out == from_json(pr.stdout)
  IN  [o EXCEPT !.collected = i + 1,
                !.total_rendered = IF out.ok THEN @ + out.pages_rendered ELSE @,
                !.all_errors = IF out.ok THEN exit_errors \o out.errors \o @
                               ELSE exit_errors \o @,
                !.pc = IF i + 1 = o.spawned THEN "summary" ELSE "collecting"]

\* collect_worker_results: one iteration, on the next child in spawn order;
\* wait_with_output returns once that child has exited.
collect_one(o, i, pr) ==
  LET exit_errors == IF ~pr.success
                     THEN <<[prefix |-> "worker", n |-> i, msg |-> pr.stderr]>>
                     ELSE <<>>
      out == from_json(pr.stdout)
  IN  [o EXCEPT !.collected = i + 1,
                !.total_rendered = IF out.ok THEN @ + out.pages_rendered ELSE @,
                !.all_errors = IF out.ok THEN @ \o exit_errors \o out.errors
                               ELSE @ \o exit_errors,
                !.pc = IF i + 1 = o.spawned THEN "summary" ELSE "collecting"]

Collect ==
  /\ orch.pc = "collecting"
  /\ orch.collected < orch.spawned
  /\ procs[Unit(orch.collected)].state = "exited"
  /\ orch' = collect_one(orch, orch.collected, procs[Unit(orch.collected)])
  /\ UNCHANGED <<cli, procs, parserVars, divideVars, engineVars>>

\* wait_with_output()? returns an I/O error.
CollectFails ==
  /\ orch.pc = "collecting"
  /\ orch.collected < orch.spawned
  /\ orch' = Fail("Io")
  /\ UNCHANGED <<cli, procs, parserVars, divideVars, engineVars>>

\* print_summary(rendered, plan.effective_workers, ..)
PrintSummary ==
  /\ orch.pc = "summary"
  /\ orch' = [orch EXCEPT !.pc = "check",
                !.summary = <<[pages_rendered |-> orch.total_rendered,
                               workers_used |-> orch.effective_workers]>>]
  /\ UNCHANGED <<cli, procs, parserVars, divideVars, engineVars>>

\* Mutant of check_errors: the run succeeds whatever the errors.
check_errors_never_fails(errors) == [printed |-> errors, result |-> "Ok"]

\* check_errors: Ok for an empty list; else every error is printed and the
\* result is Err(Render("{n} errors during rendering")).
check_errors(errors) ==
  IF errors = <<>> THEN [printed |-> <<>>, result |-> "Ok"]
  ELSE [printed |-> errors, result |-> "Render"]

\* run: check_errors(errors) is what run returns.
CheckErrors ==
  /\ orch.pc = "check"
  /\ orch' = [orch EXCEPT !.pc = "done",
                !.printed = check_errors(orch.all_errors).printed,
                !.result = check_errors(orch.all_errors).result]
  /\ UNCHANGED <<cli, procs, parserVars, divideVars, engineVars>>

\* Worker u exits while a worker spawned before it has not exited yet.
Overtakes(u) == \E v \in 1..(u - 1) : procs[v].state # "exited"

\* run_worker up to the loop of render_pages: the document is opened for its
\* page count, the range string is parsed, render_pages opens the document.
\* An error ends the process with a failure status and nothing on stdout.
WorkerStart(u) ==
  /\ procs[u].state = "spawned"
  /\ LET pr == parse_page_range(procs[u].args.pages, Len(doc))
     IN  IF open_result # "ok" \/ ~pr.ok
         THEN /\ procs' = [procs EXCEPT ![u].state = "exited",
                                        ![u].success = FALSE,
                                        ![u].overtook = Overtakes(u),
                                        ![u].stderr =
                                          IF open_result # "ok" THEN open_result
                                          ELSE pr.err]
              /\ eng' = eng
         ELSE /\ procs' = [procs EXCEPT ![u].state = "running"]
              /\ eng' = [eng EXCEPT ![u] =
                           [EngineStart(pr.pages, worker_opts(procs[u].args), Len(doc))
                              EXCEPT !.state = "running"]]
  /\ UNCHANGED <<cli, orch, parserVars, divideVars, doc, open_result, files>>

\* One iteration of the worker's render_pages loop.
WorkerPage(u) ==
  /\ procs[u].state = "running" /\ EnginePage(u)
  /\ UNCHANGED <<parserVars, divideVars, runVars>>

\* run_worker: render_pages returned; the result is printed as JSON on
\* stdout and the process exits with success.
WorkerFinish(u) ==
  /\ procs[u].state = "running" /\ EngineReturn(u)
  /\ procs' = [procs EXCEPT ![u].state = "exited", ![u].success = TRUE,
                            ![u].overtook = Overtakes(u),
                            ![u].stdout = to_json(WorkerResult(eng[u]))]
  /\ UNCHANGED <<cli, orch, parserVars, divideVars>>

\* The process dies (a signal, an abort in the PDF engine) before it prints.
WorkerCrash(u) ==
  /\ procs[u].state \in {"spawned", "running"}
  /\ procs' = [procs EXCEPT ![u].state = "exited", ![u].success = FALSE,
                            ![u].overtook = Overtakes(u),
                            ![u].stderr = "crash"]
  /\ UNCHANGED <<cli, orch, parserVars, divideVars, engineVars>>

RunNext ==
  \/ BuildPlan \/ CreateDir \/ CreateDirFails
  \/ SingleOpen \/ SinglePage \/ SingleReturn \/ SingleDone
  \/ StartMulti \/ CurrentExeFails \/ Spawn \/ SpawnFails
  \/ Collect \/ CollectFails \/ PrintSummary \/ CheckErrors
  \/ \E u \in RunUnits :
       WorkerStart(u) \/ WorkerPage(u) \/ WorkerFinish(u) \/ WorkerCrash(u)

RunSpec == RunInit /\ [][RunNext]_vars

\* ------------------------------- specification: the pipes of the workers
\* The children of run_multi_process are spawned with stdout and stderr
\* piped (Stdio::piped). A pipe holds a bounded amount of data; a write to a
\* full pipe blocks until the reader has taken data out. The only reader is
\* the orchestrator, in wait_with_output, one child at a time, in spawn
\* order. Amounts are counted in units of pipe data.
MaxPipeWorkers == 2
PipeCap == 1
MaxOutput == 2

PipeUnits == 1..MaxPipeWorkers

\* A child: what it still has to write to stderr (one progress line for
\* each page rendered or extracted, eprint! in render_pages) and then to
\* stdout (the JSON result, println! in run_worker) and what sits in its two
\* pipes. stalled records that a
\* write of the child blocked on a full pipe while a child spawned before
\* it was still alive.
PipeProc(err_left, out_left) ==
  [state |-> "none", err_left |-> err_left, out_left |-> out_left,
   err_pipe |-> 0, out_pipe |-> 0, stalled |-> FALSE]

PipeInit ==
  /\ procs = [u \in PipeUnits |-> PipeProc(0, 0)]
  /\ \E n \in 2..MaxPipeWorkers :
       orch = [pc |-> "spawning", children |-> n, spawned |-> 0, collected |-> 0,
               result |-> "none"]
  /\ cli = <<>>
  /\ ParserIdle /\ DivideIdle /\ EngineIdle

\* run_multi_process: spawn_worker for the next chunk; the child runs from
\* now on, with some amount of output ahead of it. After the last one
\* collect_worker_results is entered.
PipeSpawn ==
  /\ orch.pc = "spawning"
  /\ orch.spawned < orch.children
  /\ \E e \in 0..MaxOutput, o \in 0..MaxOutput :
       procs' = [procs EXCEPT ![orch.spawned + 1] =
                   [PipeProc(e, o) EXCEPT !.state = "running"]]
  /\ orch' = [orch EXCEPT !.spawned = @ + 1,
                !.pc = IF orch.spawned + 1 = orch.children THEN "collecting"
                       ELSE "spawning"]
  /\ UNCHANGED <<cli, parserVars, divideVars, engineVars>>

\* spawn() fails: run_multi_process returns the error.
PipeSpawnFails ==
  /\ orch.pc = "spawning"
  /\ orch.spawned < orch.children
  /\ orch' = [orch EXCEPT !.pc = "done", !.result = "Io"]
  /\ UNCHANGED <<cli, procs, parserVars, divideVars, engineVars>>

\* Mutant of reads_while_waiting: the child is waited for first and its
\* output read after it has exited.
reads_after_exit(o, ps, u) ==
  o.pc = "collecting" /\ u = o.collected + 1 /\ ps[u].state = "exited"

\* wait_with_output: whether the orchestrator is reading the pipes of child
\* u: it reads stdout and stderr of the child it is waiting for, both at
\* once, until both are at end of file.
reads_while_waiting(o, ps, u) ==
  o.pc = "collecting" /\ u = o.collected + 1

\* wait_with_output takes data out of the child's stderr pipe.
PipeReadStderr ==
  /\ orch.pc = "collecting"
  /\ \E u \in PipeUnits :
       /\ reads_while_waiting(orch, procs, u)
       /\ procs[u].err_pipe > 0
       /\ procs' = [procs EXCEPT ![u].err_pipe = @ - 1]
  /\ UNCHANGED <<cli, orch, parserVars, divideVars, engineVars>>

\* wait_with_output takes data out of the child's stdout pipe.
PipeReadStdout ==
  /\ orch.pc = "collecting"
  /\ \E u \in PipeUnits :
       /\ reads_while_waiting(orch, procs, u)
       /\ procs[u].out_pipe > 0
       /\ procs' = [procs EXCEPT ![u].out_pipe = @ - 1]
  /\ UNCHANGED <<cli, orch, parserVars, divideVars, engineVars>>

\* wait_with_output returns: the child has exited and both pipes are at end
\* of file; the loop of collect_worker_results goes to the next child, or
\* returns after the last one.
PipeReap ==
  /\ orch.pc = "collecting"
  /\ LET u == orch.collected + 1
     IN  /\ procs[u].state = "exited"
         /\ procs[u].err_pipe = 0 /\ procs[u].out_pipe = 0
  /\ orch' = [orch EXCEPT !.collected = @ + 1,
                !.pc = IF orch.collected + 1 = orch.spawned THEN "summary"
                       ELSE "collecting",
                !.result = IF orch.collected + 1 = orch.spawned THEN "collected"
                           ELSE @]
  /\ UNCHANGED <<cli, procs, parserVars, divideVars, engineVars>>

\* wait_with_output()? returns an I/O error.
PipeWaitFails ==
  /\ orch.pc = "collecting"
  /\ orch' = [orch EXCEPT !.pc = "done", !.result = "Io"]
  /\ UNCHANGED <<cli, procs, parserVars, divideVars, engineVars>>

\* The child writes: its progress lines to stderr first, then its result to
\* stdout; a write needs room in the pipe.
PipeWrite(u) ==
  /\ procs[u].state = "running"
  /\ IF procs[u].err_left > 0
     THEN /\ procs[u].err_pipe < PipeCap
          /\ procs' = [procs EXCEPT ![u].err_left = @ - 1, ![u].err_pipe = @ + 1]
     ELSE /\ procs[u].out_left > 0
          /\ procs[u].out_pipe < PipeCap
          /\ procs' = [procs EXCEPT ![u].out_left = @ - 1, ![u].out_pipe = @ + 1]
  /\ UNCHANGED <<cli, orch, parserVars, divideVars, engineVars>>

\* The child's write blocks: the pipe it writes to is full, and a child
\* spawned before it has not exited.
PipeBlock(u) ==
  /\ procs[u].state = "running" /\ ~procs[u].stalled
  /\ \/ procs[u].err_left > 0 /\ procs[u].err_pipe = PipeCap
     \/ procs[u].err_left = 0 /\ procs[u].out_left > 0 /\ procs[u].out_pipe = PipeCap
  /\ \E v \in 1..(u - 1) : procs[v].state # "exited"
  /\ procs' = [procs EXCEPT ![u].stalled = TRUE]
  /\ UNCHANGED <<cli, orch, parserVars, divideVars, engineVars>>

\* The child has written everything and exits; its ends of the pipes close.
PipeExit(u) ==
  /\ procs[u].state = "running"
  /\ procs[u].err_left = 0 /\ procs[u].out_left = 0
  /\ procs' = [procs EXCEPT ![u].state = "exited"]
  /\ UNCHANGED <<cli, orch, parserVars, divideVars, engineVars>>

PipeNext ==
  \/ PipeSpawn \/ PipeSpawnFails
  \/ PipeReadStderr \/ PipeReadStdout \/ PipeReap \/ PipeWaitFails
  \/ \E u \in PipeUnits : PipeWrite(u) \/ PipeBlock(u) \/ PipeExit(u)

\* The orchestrator is a running process: its spawn loop and the reads and
\* the wait of wait_with_output go on when they can; a worker goes on
\* writing when the pipe has room and exits when it has written everything.
\* Nothing forces a spawn or a wait to fail.
PipeFairness ==
  /\ WF_vars(PipeSpawn)
  /\ WF_vars(PipeReadStderr) /\ WF_vars(PipeReadStdout) /\ WF_vars(PipeReap)
  /\ \A u \in PipeUnits : WF_vars(PipeWrite(u)) /\ WF_vars(PipeExit(u))

PipeSpec == PipeInit /\ [][PipeNext]_vars /\ PipeFairness

\* ----------------------------------------------------------------- claims
\* What a token means, stated from the grammar and u32::to_string rather
\* than from the parser: a number is spelled by its decimal digits, with
\* any leading zeros, an optional sign before them and blanks around them.
Zeros(k) == [i \in 1..k |-> "0"]

\* The digits of s when s is blanks, an optional sign, one or more decimal
\* digits, blanks; the empty sequence when s spells no number.
DigitsOf(s) ==
  LET solid == {i \in 1..Len(s) : s[i] # " "}
  IN  IF solid = {} THEN <<>>
      ELSE LET first == CHOOSE i \in solid : \A k \in solid : i <= k
               last  == CHOOSE j \in solid : \A k \in solid : k <= j
               from  == IF s[first] = "+" THEN first + 1 ELSE first
           IN  IF \A k \in from..last : s[k] \in {DigitChars[d] : d \in 1..10}
               THEN SubSeq(s, from, last)
               ELSE <<>>

SpellsNumber(s) == DigitsOf(s) # <<>>

\* The numbers of 0..maxp that s spells (at most one): the digits of s are
\* zeros followed by the number's decimal form.
NumbersSpelled(s, maxp) ==
  LET digits == DigitsOf(s)
  IN  {n \in 0..maxp :
         LET t == to_string(n)
         IN  /\ Len(digits) >= Len(t)
             /\ digits = Zeros(Len(digits) - Len(t)) \o t}

Spells(s, n) == n \in NumbersSpelled(s, n)

\* The two sides of a token around each of its dashes.
Sides(tok) ==
  {[left |-> SubSeq(tok, 1, i - 1), right |-> SubSeq(tok, i + 1, Len(tok))] :
     i \in {k \in 1..Len(tok) : tok[k] = "-"}}

\* The pages in 1..maxp a token names: the page n, or every page of a-b.
TokenPages(tok, maxp) ==
  (NumbersSpelled(tok, maxp) \ {0})
    \cup UNION {{p \in 1..maxp :
                   \E a \in NumbersSpelled(sd.left, maxp) \ {0} :
                   \E b \in NumbersSpelled(sd.right, maxp) \ {0} :
                     a <= p /\ p <= b} : sd \in Sides(tok)}

\* The tokens of a string: what lies between two neighbouring cuts, a cut
\* being a comma or an end of the string.
Tokens(s) ==
  LET cuts == {0, Len(s) + 1} \cup {i \in 1..Len(s) : s[i] = ","}
  IN  {SubSeq(s, i + 1, j - 1) : <<i, j>> \in
         {c \in cuts \X cuts :
            c[1] < c[2] /\ \A k \in cuts : ~(c[1] < k /\ k < c[2])}}

StrictlyIncreasing(s) == \A i \in 1..(Len(s) - 1) : s[i] < s[i + 1]

Elems(s) == {s[i] : i \in 1..Len(s)}

\* C1: whenever parse_page_range succeeds, the list it returns is strictly
\* increasing (sorted, no duplicate), every value is in 1..max_page, and
\* its values are exactly the union of the pages the tokens name;
\* overlapping tokens collapse.
C1_ParseIsSortedUnion ==
  (parsed # NotCalled /\ parsed.ok) =>
     /\ StrictlyIncreasing(parsed.pages)
     /\ Elems(parsed.pages) \subseteq 1..max_page
     /\ Elems(parsed.pages) =
          UNION {TokenPages(tok, max_page) : tok \in Tokens(input)}

\* C1 witness: two tokens that overlap (both name one page) were parsed to
\* a list of at least two pages.
C1_Witness ==
  /\ parsed # NotCalled /\ parsed.ok /\ Len(parsed.pages) >= 2
  /\ \E i \in 1..Len(input) :
       /\ input[i] = ","
       /\ TokenPages(SubSeq(input, 1, i - 1), max_page)
            \cap TokenPages(SubSeq(input, i + 1, Len(input)), max_page) # {}

\* The token is neither a number nor two numbers around a dash.
NotInteger(tok) ==
  /\ ~SpellsNumber(tok)
  /\ \A sd \in Sides(tok) : ~(SpellsNumber(sd.left) /\ SpellsNumber(sd.right))

\* s spells a number greater than maxp.
SpellsOver(s, maxp) == SpellsNumber(s) /\ NumbersSpelled(s, maxp) = {}

BadToken(tok, maxp) ==
  \/ NotInteger(tok)
  \/ Spells(tok, 0)
  \/ SpellsOver(tok, maxp)
  \/ \E sd \in Sides(tok) :
       /\ SpellsNumber(sd.left) /\ SpellsNumber(sd.right)
       /\ \/ Spells(sd.left, 0) \/ Spells(sd.right, 0)
          \/ SpellsOver(sd.left, maxp) \/ SpellsOver(sd.right, maxp)
          \/ \E a \in NumbersSpelled(sd.left, maxp) :
             \E b \in NumbersSpelled(sd.right, maxp) : a > b

\* C2: if any token of the input is not an integer, names page 0 or an
\* endpoint 0, is a range with start > end, or names a page above
\* max_page, parse_page_range returns InvalidArgs and no page list.
C2_BadTokenFails ==
  (parsed # NotCalled /\ \E tok \in Tokens(input) : BadToken(tok, max_page)) =>
     /\ ~parsed.ok
     /\ parsed.err = "InvalidArgs"
     /\ parsed.pages = <<>>

\* C2 witness: a page above max_page that follows a good token was rejected.
C2_Witness ==
  /\ parsed # NotCalled /\ ~parsed.ok
  /\ \E i \in 1..Len(input) :
       /\ input[i] = ","
       /\ TokenPages(SubSeq(input, 1, i - 1), max_page) # {}
       /\ ~BadToken(SubSeq(input, 1, i - 1), max_page)
       /\ SpellsOver(SubSeq(input, i + 1, Len(input)), max_page)

\* C3 as stated: the empty string parses to the empty list.
C3_EmptyInputIsEmptyList ==
  (parsed # NotCalled /\ input = <<>>) => (parsed.ok /\ parsed.pages = <<>>)

\* C3 amended: the empty string is rejected with InvalidArgs for every
\* max_page (its one token, the empty string, is not an integer), and no
\* call returns a zero-length list.
C3_EmptyInputFails ==
  /\ (parsed # NotCalled /\ input = <<>>) =>
        (~parsed.ok /\ parsed.err = "InvalidArgs")
  /\ (parsed # NotCalled /\ parsed.ok) => parsed.pages # <<>>

\* C3 witness: the empty string was parsed against a document with pages.
C3_Witness == parsed # NotCalled /\ input = <<>> /\ max_page > 0

\* C6: the range string of a contiguous slice of a parsed page list parses
\* back, against the same page count, to exactly that slice.
C6_RoundTrip ==
  reparsed # NotCalled => (reparsed.ok /\ reparsed.pages = worker_pages)

\* C6 witness: a slice with a run and a gap, so that the range string has
\* both a dash and a comma, made the trip.
C6_Witness ==
  /\ reparsed # NotCalled
  /\ Len(worker_pages) >= 3
  /\ \E i \in 1..Len(pages_str) : pages_str[i] = "-"
  /\ \E i \in 1..Len(pages_str) : pages_str[i] = ","

\* C6 witness of a two-digit page: the trip of a slice reaching page 10.
C6_WitnessTwoDigits ==
  /\ reparsed # NotCalled
  /\ \E i \in 1..Len(worker_pages) : worker_pages[i] >= 10
  /\ Len(pages_str) >= 4

ChunkSize(c) == c[2] - c[1] + 1

\* C4: for total > 0 and workers > 0 the chunks partition 1..total: the
\* first starts at 1, each starts one past the end of the one before, the
\* last ends at total, none is empty, any two sizes differ by at most 1.
C4_ChunksPartition ==
  (ranges # NoRanges /\ total_pages > 0 /\ num_workers > 0) =>
     /\ ranges # <<>>
     /\ ranges[1][1] = 1
     /\ \A i \in 1..(Len(ranges) - 1) : ranges[i + 1][1] = ranges[i][2] + 1
     /\ ranges[Len(ranges)][2] = total_pages
     /\ \A i \in 1..Len(ranges) : ranges[i][1] <= ranges[i][2]
     /\ \A i, j \in 1..Len(ranges) :
          ChunkSize(ranges[i]) - ChunkSize(ranges[j]) <= 1

\* C4 witness: a division with a remainder into several uneven chunks.
C4_Witness ==
  /\ ranges # NoRanges /\ Len(ranges) >= 3
  /\ total_pages % Len(ranges) # 0
  /\ ChunkSize(ranges[1]) > ChunkSize(ranges[Len(ranges)])

\* C5: no chunk at all when total = 0 or workers = 0; otherwise exactly
\* w = min(workers, total) chunks, the first (total mod w) of size
\* floor(total / w) + 1 and the others of size floor(total / w), so the
\* sizes never increase with the chunk index.
C5_ChunkSizes ==
  ranges # NoRanges =>
    IF total_pages = 0 \/ num_workers = 0 THEN ranges = <<>>
    ELSE LET w == IF num_workers < total_pages THEN num_workers ELSE total_pages
         IN  /\ Len(ranges) = w
             /\ \A i \in 1..w :
                  ChunkSize(ranges[i]) =
                    (total_pages \div w) + (IF i <= total_pages % w THEN 1 ELSE 0)
             /\ \A i \in 1..(w - 1) :
                  ChunkSize(ranges[i]) >= ChunkSize(ranges[i + 1])

\* C5 witness: divide(10, 3) = [(1,4), (5,7), (8,10)].
C5_Witness ==
  /\ total_pages = 10 /\ num_workers = 3
  /\ ranges = <<(<<1, 4>>), (<<5, 7>>), (<<8, 10>>)>>

\* C5 witness of more workers than pages: divide(2, 5) = [(1,1), (2,2)].
C5_WitnessFewPages ==
  /\ total_pages = 2 /\ num_workers = 5
  /\ ranges = <<(<<1, 1>>), (<<2, 2>>)>>

\* The pages of a log with the given outcome, in log order.
RECURSIVE PagesWith(_, _)
PagesWith(log, outcome) ==
  IF log = <<>> THEN <<>>
  ELSE IF Head(log).outcome = outcome
    THEN <<Head(log).page>> \o PagesWith(Tail(log), outcome)
  ELSE PagesWith(Tail(log), outcome)

\* C7: once the document is open render_pages never aborts: the pages are
\* attempted once each in list order (the log of outcomes is the page list
\* up to the loop position), the only ways out of the running state are
\* the next page and the return after the last one, and at every moment, so
\* also in the result, pages_rendered + pages_extracted + len(errors) is the
\* number of pages attempted, with the errors in page-list order.
C7_BatchNeverAborts ==
  LET e == eng[InProcess]
  IN  eng # <<>> =>
        /\ e.state \in {"idle", "running", "done"} \cup (OpenResults \ {"ok"})
        /\ e.state \in (OpenResults \ {"ok"}) => (e.log = <<>> /\ e.idx = 1)
        /\ Len(e.log) = e.idx - 1
        /\ e.idx <= Len(e.pages) + 1
        /\ \A i \in 1..Len(e.log) : e.log[i].page = e.pages[i]
        /\ e.pages_rendered + e.pages_extracted + Len(e.errors) = Len(e.log)
        /\ [i \in 1..Len(e.errors) |-> e.errors[i].n] = PagesWith(e.log, "Failed")
        /\ e.state = "done" =>
             /\ Len(e.log) = Len(e.pages)
             /\ e.pages_rendered + e.pages_extracted + Len(e.errors) = Len(e.pages)

\* C7 witness: a batch whose first page failed and whose second page was
\* still produced, returned.
C7_Witness ==
  LET e == eng[InProcess]
  IN  /\ eng # <<>> /\ e.state = "done" /\ Len(e.pages) = 2
      /\ e.log[1].outcome = "Failed" /\ e.log[2].outcome # "Failed"
      /\ Len(e.errors) = 1

\* A page that is exactly one image object with the one filter DCTDecode.
IsSingleJpeg(pg) ==
  /\ pg.fetch_ok /\ pg.n_objects = 1 /\ pg.obj = "image"
  /\ pg.filters = <<"DCTDecode">>

CountWith(log, outcome) == Len(PagesWith(log, outcome))

\* C8: with extract_images set, a single-JPEG page is never rasterized: its
\* outcome is Extracted (counted in pages_extracted, not in pages_rendered)
\* with its file holding the raw bytes, written once, or Failed with one
\* "page N extract" error and no rendered JPEG in its file.
C8_SingleJpegNeverRasterized ==
  LET e == eng[InProcess]
  IN  (eng # <<>> /\ e.opts.extract_images) =>
        /\ e.pages_extracted = CountWith(e.log, "Extracted")
        /\ e.pages_rendered = CountWith(e.log, "Rendered")
        /\ \A i \in 1..Len(e.log) :
             LET p == e.log[i].page
                 f == files[FileName(p)]
             IN  IsSingleJpeg(doc[p]) =>
                   /\ ~e.log[i].rasterized
                   /\ e.log[i].outcome \in {"Extracted", "Failed"}
                   /\ f.count <= 1
                   /\ f.data[1] # "jpeg"
                   /\ e.log[i].outcome = "Extracted" =>
                        (f.data = RawBytes(p) /\ f.count = 1)
                   /\ e.log[i].outcome = "Failed" =>
                        /\ f.data # RawBytes(p)
                        /\ \E k \in 1..Len(e.errors) :
                             /\ e.errors[k].n = p
                             /\ e.errors[k].prefix = "page extract"
                             /\ \A j \in 1..Len(e.errors) :
                                  e.errors[j].n = p => j = k

\* C8 witness: two single-JPEG pages, one extracted and one whose write
\* failed, and nothing rendered.
C8_Witness ==
  LET e == eng[InProcess]
  IN  /\ eng # <<>> /\ e.state = "done" /\ e.opts.extract_images
      /\ Len(e.pages) = 2
      /\ IsSingleJpeg(doc[1]) /\ IsSingleJpeg(doc[2])
      /\ e.pages_extracted = 1 /\ e.pages_rendered = 0 /\ Len(e.errors) = 1
      /\ \E p \in 1..2 : files[FileName(p)].data = RawBytes(p)
      /\ \E p \in 1..2 : files[FileName(p)].data = <<"partial", p>>

\* The worker units that were spawned.
Spawned == {u \in DOMAIN procs : procs[u].state # "none"}

\* C9: in a multi-process run, under every interleaving of the workers, a
\* file is opened for writing at most once and by at most one unit, and
\* only the file named after a page of that unit's own list: the names come
\* from the global page numbers, which the chunks do not share.
C9_NoFileWrittenTwice ==
  (orch # <<>> /\ orch.effective_workers > 1) =>
     /\ \A f \in DOMAIN files :
          /\ files[f].count <= 1
          /\ Cardinality(files[f].writers) <= 1
          /\ \A u \in files[f].writers :
               /\ u \in Spawned
               /\ \E i \in 1..(eng[u].idx - 1) : f = FileName(eng[u].pages[i])
     /\ \A u, v \in Spawned :
          u # v => Elems(eng[u].pages) \cap Elems(eng[v].pages) = {}

\* C9 witness: two workers run at the same time and each has written a
\* file, the later spawned one first.
C9_Witness ==
  /\ orch # <<>> /\ orch.effective_workers > 1
  /\ procs[1].state = "running" /\ procs[2].state = "running"
  /\ eng[1].idx > 1 /\ eng[2].idx > 1
  /\ files[FileName(eng[1].pages[1])].writers = {1}
  /\ files[FileName(eng[2].pages[1])].writers = {2}

\* The orchestrator got past build_render_plan.
Planned == orch # <<>> /\ orch.pc # "start" /\ ~(orch.pc = "done" /\ orch.page_list = <<>>)

\* C10: effective workers = min(requested, length of the page list). When
\* that is <= 1 no worker process is ever spawned and the whole list is
\* rendered in-process; otherwise no page is rendered in-process, at most
\* one worker is spawned per chunk, each with the range string of its
\* chunk, and once all are spawned (so whenever a summary is reported) the
\* number of worker processes equals the effective worker count, which is
\* the workers_used of the summary.
C10_EffectiveWorkers ==
  Planned =>
    /\ orch.effective_workers =
         (IF cli.workers <= Len(orch.page_list) THEN cli.workers
          ELSE Len(orch.page_list))
    /\ Cardinality(Spawned) = orch.spawned
    /\ orch.effective_workers <= 1 =>
         /\ Spawned = {}
         /\ orch.pc \in {"summary", "check"} \/ orch.result \in {"Ok", "Render"} =>
              (eng[InProcess].state = "done" /\ eng[InProcess].pages = orch.page_list)
    /\ orch.effective_workers > 1 =>
         /\ eng[InProcess].state = "idle" /\ eng[InProcess].log = <<>>
         /\ orch.spawned <= orch.effective_workers
         /\ \A i \in 0..(orch.spawned - 1) :
              procs[Unit(i)].args.pages =
                format_page_list(chunk_pages(orch.page_list, orch.ranges, i))
         /\ orch.pc \in {"collecting", "summary", "check"} \/ orch.summary # <<>> =>
              /\ orch.spawned = orch.effective_workers
              /\ orch.spawned = Len(orch.ranges)
    /\ orch.summary # <<>> =>
         orch.summary[1].workers_used = orch.effective_workers

\* C10 witness: a finished run whose summary reports two workers, both of
\* them spawned, for more requested workers than that.
C10_Witness ==
  /\ orch # <<>> /\ orch.summary # <<>> /\ orch.pc = "done"
  /\ orch.summary[1].workers_used = 2 /\ Cardinality(Spawned) = 2

\* C10 witness of the in-process mode: more than one worker requested, one
\* page selected, the summary reports one worker and nothing was spawned.
C10_WitnessSingle ==
  /\ orch # <<>> /\ orch.summary # <<>> /\ cli.workers > 1
  /\ orch.summary[1].workers_used = 1 /\ Spawned = {}
  /\ eng[InProcess].state = "done"

\* The outcome of page p when render_pages processes it with options opts.
page_outcome(d, opts, p) ==
  render_one(EngineStart(<<p>>, opts, Len(d)),
             [f \in DOMAIN files |-> NoFile], d, InProcess).e.log[1].outcome

\* C11: every worker is launched with the range string of its chunk and all
\* of the render options of the command (target width, quality, box type,
\* extract_images, encoder), so every page a worker processes has the
\* outcome it has when render_pages runs in-process with those options.
C11_WorkersGetAllOptions ==
  orch # <<>> =>
    \A u \in Spawned :
      /\ procs[u].args.pages =
           format_page_list(chunk_pages(orch.page_list, orch.ranges, u - 1))
      /\ worker_opts(procs[u].args) = cli_opts(cli)
      /\ \A k \in 1..Len(eng[u].log) :
           eng[u].log[k].outcome =
             page_outcome(doc, cli_opts(cli), eng[u].log[k].page)

\* C11, the outcomes alone: a page processed by a worker has the outcome of
\* the in-process engine under the command's options.
C11_SameOutcome ==
  orch # <<>> =>
    \A u \in Spawned : \A k \in 1..Len(eng[u].log) :
      eng[u].log[k].outcome = page_outcome(doc, cli_opts(cli), eng[u].log[k].page)

\* C12: the run is never fail-fast: when run has returned, every worker that
\* was spawned has exited and has been waited for, and every waited-for
\* worker with a non-zero exit has its error in the aggregated list.
C12_NeverFailFast ==
  orch # <<>> =>
    /\ orch.pc = "done" =>
         \A u \in Spawned : procs[u].state = "exited" /\ u <= orch.collected
    /\ \A i \in 0..(orch.collected - 1) :
         ~procs[Unit(i)].success =>
           \E k \in 1..Len(orch.all_errors) :
             orch.all_errors[k].prefix = "worker" /\ orch.all_errors[k].n = i

\* C12, the part the code keeps: a non-zero exit is recorded as an error
\* naming the worker and collection goes on with the next worker.
C12_ExitRecorded ==
  orch # <<>> =>
    \A i \in 0..(orch.collected - 1) :
      ~procs[Unit(i)].success =>
        \E k \in 1..Len(orch.all_errors) :
          orch.all_errors[k].prefix = "worker" /\ orch.all_errors[k].n = i

\* The multi-process run has collected every worker.
AggregationDone ==
  /\ orch # <<>> /\ orch.effective_workers > 1
  /\ orch.collected = orch.spawned
  /\ orch.pc \in {"summary", "check", "done"}
  /\ orch.pc = "done" => orch.summary # <<>>

\* A worker that exited with a non-zero status and printed nothing.
Crashed(u) ==
  procs[u].state = "exited" /\ ~procs[u].success /\ procs[u].stdout = <<>>

IsWorkerError(err) == err.prefix = "worker"
IsPageError(err) == err.prefix # "worker"

\* What the workers 1..k that did not crash rendered and reported, in spawn
\* order, read from the workers' own render_pages state.
RECURSIVE SurvivorTotals(_)
SurvivorTotals(k) ==
  IF k = 0 THEN [rendered |-> 0, errors |-> <<>>]
  ELSE LET rest == SurvivorTotals(k - 1)
       IN  IF Crashed(k) THEN rest
           ELSE [rendered |-> rest.rendered + eng[k].pages_rendered,
                 errors |-> rest.errors \o eng[k].errors]

\* One error per crashed worker among 1..k, naming its 0-based index.
RECURSIVE CrashErrors(_)
CrashErrors(k) ==
  IF k = 0 THEN <<>>
  ELSE IF Crashed(k)
       THEN Append(CrashErrors(k - 1),
                   [prefix |-> "worker", n |-> k - 1, msg |-> procs[k].stderr])
       ELSE CrashErrors(k - 1)

\* C13: a worker that crashed before printing adds exactly one error naming
\* its index and nothing to the total; the rendered total and the per-page
\* errors are those of the other workers, as if it had not been there.
C13_CrashIsolated ==
  AggregationDone =>
    /\ SelectSeq(orch.all_errors, IsWorkerError) = CrashErrors(orch.spawned)
    /\ SelectSeq(orch.all_errors, IsPageError) = SurvivorTotals(orch.spawned).errors
    /\ orch.total_rendered = SurvivorTotals(orch.spawned).rendered

\* C13 witness: the first worker crashed after writing its page, the second
\* one rendered its page; the total is 1 and the only error names worker 0.
C13_Witness ==
  /\ AggregationDone /\ orch.spawned = 2
  /\ Crashed(1) /\ eng[1].pages_rendered = 1
  /\ procs[2].success /\ eng[2].pages_rendered = 1
  /\ orch.total_rendered = 1
  /\ Len(orch.all_errors) = 1 /\ orch.all_errors[1].n = 0

\* C13 witness: the second worker crashed, the first reported a page error.
C13_WitnessSecond ==
  /\ AggregationDone /\ orch.spawned = 2
  /\ Crashed(2) /\ procs[1].success /\ Len(eng[1].errors) = 1
  /\ Len(orch.all_errors) = 2 /\ orch.all_errors[2].n = 1

\* The worker an aggregated error belongs to: the one named by a worker
\* error, the one whose page list holds the page of a page error.
ErrorOwner(err) ==
  IF IsWorkerError(err) THEN Unit(err.n)
  ELSE CHOOSE u \in Spawned : err.n \in Elems(eng[u].pages)

\* What worker u hands to the orchestrator: its exit error, if its status is
\* non-zero, then the errors of the result it printed; and the pages_rendered
\* of that result.
ReportedErrors(u) ==
  (IF procs[u].success THEN <<>>
   ELSE <<[prefix |-> "worker", n |-> u - 1, msg |-> procs[u].stderr]>>)
  \o (IF procs[u].stdout = <<>> THEN <<>> ELSE procs[u].stdout[1].errors)

ReportedRendered(u) ==
  IF procs[u].stdout = <<>> THEN 0 ELSE procs[u].stdout[1].pages_rendered

\* The results of the workers 1..k folded in spawn order.
RECURSIVE InSpawnOrder(_)
InSpawnOrder(k) ==
  IF k = 0 THEN [rendered |-> 0, errors |-> <<>>]
  ELSE [rendered |-> InSpawnOrder(k - 1).rendered + ReportedRendered(k),
        errors |-> InSpawnOrder(k - 1).errors \o ReportedErrors(k)]

\* C14: in whatever order the workers completed, the aggregated total and
\* error list are the workers' own results folded in spawn order, and the
\* errors of worker i come before those of worker j for i < j.
C14_SpawnOrderAggregation ==
  AggregationDone =>
    /\ orch.total_rendered = InSpawnOrder(orch.spawned).rendered
    /\ orch.all_errors = InSpawnOrder(orch.spawned).errors
    /\ \A k, l \in 1..Len(orch.all_errors) :
         k < l => ErrorOwner(orch.all_errors[k]) <= ErrorOwner(orch.all_errors[l])

\* C14 witness: the second worker completed before the first, each reported
\* an error, and the first worker's error is first in the aggregated list.
C14_Witness ==
  /\ AggregationDone /\ orch.spawned = 2
  /\ procs[2].overtook
  /\ Len(orch.all_errors) = 2
  /\ ErrorOwner(orch.all_errors[1]) = 1 /\ ErrorOwner(orch.all_errors[2]) = 2
  /\ orch.all_errors[1].prefix = "page"

\* The counts and errors of every WorkerResult whose output parsed, workers
\* 1..k in spawn order, with the exit errors of the others.
RECURSIVE SumOfResults(_)
SumOfResults(k) ==
  IF k = 0 THEN [rendered |-> 0, extracted |-> 0, errors |-> <<>>]
  ELSE LET rest == SumOfResults(k - 1)
           exit_errors == IF procs[k].success THEN <<>>
                          ELSE <<[prefix |-> "worker", n |-> k - 1,
                                  msg |-> procs[k].stderr]>>
       IN  IF procs[k].stdout = <<>>
           THEN [rest EXCEPT !.errors = @ \o exit_errors]
           ELSE [rendered |-> rest.rendered + procs[k].stdout[1].pages_rendered,
                 extracted |-> rest.extracted + procs[k].stdout[1].pages_extracted,
                 errors |-> rest.errors \o exit_errors \o procs[k].stdout[1].errors]

\* The WorkerResults of the run: of the in-process call, or of the workers.
ResultsOfRun ==
  IF orch.effective_workers <= 1
  THEN [rendered |-> eng[InProcess].pages_rendered,
        extracted |-> eng[InProcess].pages_extracted,
        errors |-> eng[InProcess].errors]
  ELSE SumOfResults(orch.spawned)

\* C15: the run reports both counts of the WorkerResults: the rendered total
\* and the extracted total are the sums over the results, the error list is
\* their concatenation in spawn order with the exit errors, in the multi-
\* process and in the in-process mode.
C15_BothCountsAggregated ==
  (orch # <<>> /\ orch.summary # <<>>) =>
    /\ orch.summary[1].pages_rendered = ResultsOfRun.rendered
    /\ orch.all_errors = ResultsOfRun.errors
    /\ "pages_extracted" \in DOMAIN orch.summary[1]
    /\ orch.summary[1].pages_extracted = ResultsOfRun.extracted

\* C15, the part the code keeps: the rendered total and the error list.
C15_RenderedAndErrors ==
  (orch # <<>> /\ orch.summary # <<>>) =>
    /\ orch.summary[1].pages_rendered = ResultsOfRun.rendered
    /\ orch.all_errors = ResultsOfRun.errors

\* The run has returned from check_errors.
RunReported == orch # <<>> /\ orch.pc = "done" /\ orch.result \in {"Ok", "Render"}

\* Nothing went wrong but pages: every worker that was spawned exited with
\* success (none in the in-process mode).
OnlyPagesFailed == \A u \in Spawned : procs[u].state = "exited" /\ procs[u].success

\* The pages of the list that fail under the options of the run.
FailingPages ==
  {p \in Elems(orch.page_list) : page_outcome(doc, run_opts(cli), p) = "Failed"}

\* C16: a run that reaches aggregation emits the summary, then returns
\* Err(Render) exactly when the aggregated error list is non-empty, having
\* printed every error, and Ok otherwise; no error is printed before the
\* summary. When k of the n pages fail and nothing else goes wrong the
\* summary reports n - k rendered pages and the k errors name the k pages.
C16_SummaryThenVerdict ==
  orch # <<>> =>
    /\ orch.pc = "check" \/ orch.printed # <<>> \/ RunReported => orch.summary # <<>>
    /\ orch.pc \in {"start", "planned", "single", "multi", "spawning",
                    "collecting", "summary", "check"} =>
         orch.printed = <<>> /\ orch.result = "none"
    /\ (orch.pc = "done" /\ orch.summary # <<>>) =>
         /\ orch.result = (IF orch.all_errors # <<>> THEN "Render" ELSE "Ok")
         /\ orch.printed = orch.all_errors
         /\ orch.summary[1].pages_rendered = orch.total_rendered
    /\ (RunReported /\ OnlyPagesFailed) =>
         /\ orch.summary[1].pages_rendered =
              Len(orch.page_list) - Cardinality(FailingPages)
         /\ Len(orch.all_errors) = Cardinality(FailingPages)
         /\ {orch.all_errors[k].n : k \in 1..Len(orch.all_errors)} = FailingPages
         /\ \A k \in 1..Len(orch.all_errors) : IsPageError(orch.all_errors[k])

\* C16 witness: two workers, one of the two pages fails: the summary reports
\* one rendered page, the one error names the page, the run fails.
C16_Witness ==
  /\ RunReported /\ OnlyPagesFailed /\ orch.effective_workers = 2
  /\ Len(orch.page_list) = 2 /\ Cardinality(FailingPages) = 1
  /\ orch.summary[1].pages_rendered = 1
  /\ orch.result = "Render" /\ Len(orch.printed) = 1

\* C16 witness in the in-process mode, and of a run without errors.
C16_WitnessSingle ==
  /\ RunReported /\ orch.effective_workers = 1
  /\ Len(orch.page_list) = 2 /\ Cardinality(FailingPages) = 1
  /\ orch.summary[1].pages_rendered = 1 /\ orch.result = "Render"

C16_WitnessOk ==
  /\ RunReported /\ orch.effective_workers = 2 /\ orch.result = "Ok"
  /\ orch.summary[1].pages_rendered = 2

\* Worker u has parsed its range string and entered render_pages.
Started(u) == u \in Spawned /\ eng[u].state # "idle"

\* The u-th contiguous slice of the page list, by the ranges of divide_pages.
Slice(u) == SubSeq(orch.page_list, orch.ranges[u][1], orch.ranges[u][2])

\* The page lists of the workers 1..k, concatenated in spawn order.
RECURSIVE ConcatPages(_)
ConcatPages(k) == IF k = 0 THEN <<>> ELSE ConcatPages(k - 1) \o eng[k].pages

\* The pages worker u has attempted so far, in order.
Attempted(u) == [k \in 1..Len(eng[u].log) |-> eng[u].log[k].page]

\* C17: the range string of a worker is never rejected; the list a worker
\* gets from re-parsing it is the worker's contiguous slice of the page
\* list, non-empty and disjoint from every other worker's; once every worker
\* has started the lists concatenated in spawn order are the page list; a
\* worker that finished attempted exactly its slice, each page once, so each
\* page of the list is attempted by exactly one worker.
C17_WorkersPartitionList ==
  (orch # <<>> /\ orch.effective_workers > 1) =>
    /\ \A u \in Spawned :
         (procs[u].state = "exited" /\ ~procs[u].success) => procs[u].stderr = "crash"
    /\ \A u \in Spawned :
         Started(u) => /\ eng[u].pages = Slice(u)
                       /\ eng[u].pages # <<>>
                       /\ \A v \in Spawned \ {u} :
                            Started(v) =>
                              Elems(eng[u].pages) \cap Elems(eng[v].pages) = {}
    /\ \A u \in Spawned :
         /\ Len(eng[u].log) <= Len(eng[u].pages)
         /\ Attempted(u) = SubSeq(eng[u].pages, 1, Len(eng[u].log))
         /\ procs[u].success => Attempted(u) = eng[u].pages
    /\ (orch.ranges # <<>> /\ \A u \in 1..Len(orch.ranges) : Started(u)) =>
         /\ ConcatPages(Len(orch.ranges)) = orch.page_list
         /\ \A p \in Elems(orch.page_list) :
              Cardinality({u \in Spawned : p \in Elems(eng[u].pages)}) = 1

\* C17 witness: both workers finished; together they attempted the two
\* pages of the list, one each.
C17_Witness ==
  /\ orch # <<>> /\ orch.effective_workers = 2 /\ Len(orch.page_list) = 2
  /\ procs[1].success /\ procs[2].success
  /\ Attempted(1) = <<orch.page_list[1]>> /\ Attempted(2) = <<orch.page_list[2]>>

\* The errors of a render_pages state that come from the extraction of page p.
ExtractErrors(e, p) ==
  {k \in 1..Len(e.errors) : e.errors[k].prefix = "page extract" /\ e.errors[k].n = p}

\* The conditions of the fast path, on the options and the page.
FastPath(opts, pg) ==
  /\ opts.extract_images
  /\ pg.n_objects = 1 /\ pg.obj = "image"
  /\ Len(pg.filters) = 1 /\ pg.filters[1] = "DCTDecode"

\* C18: a page is extracted, or fails in the extraction, only when
\* extract_images is set and the page is exactly one object, an image, with
\* the filter chain <<DCTDecode>>. Any other page goes to the rasterizer: it
\* is never counted in pages_extracted, none of its errors is an extraction
\* error, its file never holds the raw image bytes, it is rasterized whenever
\* the rasterizer succeeds and Rendered whenever the encoder does too.
C18_FastPathOnlyForSingleJpeg ==
  LET e == eng[InProcess]
  IN  eng # <<>> =>
        /\ e.pages_extracted = CountWith(e.log, "Extracted")
        /\ \A i \in 1..Len(e.log) :
             LET p == e.log[i].page
                 pg == doc[p]
                 f == files[FileName(p)]
             IN  /\ (e.log[i].outcome = "Extracted" \/ ExtractErrors(e, p) # {}) =>
                      (pg.fetch_ok /\ FastPath(e.opts, pg))
                 /\ ~FastPath(e.opts, pg) =>
                      /\ e.log[i].outcome \in {"Rendered", "Failed"}
                      /\ ExtractErrors(e, p) = {}
                      /\ f.data # RawBytes(p)
                      /\ (pg.fetch_ok /\ pg.render_ok) => e.log[i].rasterized
                      /\ e.log[i].outcome = "Rendered" =>
                           (e.log[i].rasterized /\ f.data[1] = "jpeg")
                      /\ (pg.fetch_ok /\ pg.render_ok /\ pg.encode_ok /\ pg.write_ok
                            /\ e.opts.encoder = "Image") =>
                           e.log[i].outcome = "Rendered"

\* C18 witness: with extract_images set, an image whose chain is FlateDecode
\* then DCTDecode is rendered, a single-JPEG page of the same batch extracted.
C18_Witness ==
  LET e == eng[InProcess]
  IN  /\ eng # <<>> /\ e.state = "done" /\ e.opts.extract_images
      /\ Len(e.log) = 2
      /\ \E i, j \in 1..2 :
           /\ doc[e.log[i].page].n_objects = 1 /\ doc[e.log[i].page].obj = "image"
           /\ doc[e.log[i].page].filters = <<"FlateDecode", "DCTDecode">>
           /\ e.log[i].outcome = "Rendered" /\ e.log[i].rasterized
           /\ e.log[j].outcome = "Extracted"
      /\ e.pages_extracted = 1 /\ e.pages_rendered = 1

\* C18 witness: without extract_images a single-JPEG page is rendered.
C18_WitnessFlagOff ==
  LET e == eng[InProcess]
  IN  /\ eng # <<>> /\ e.state = "done" /\ ~e.opts.extract_images
      /\ \E i \in 1..Len(e.log) :
           IsSingleJpeg(doc[e.log[i].page]) /\ e.log[i].outcome = "Rendered"
      /\ e.pages_extracted = 0

\* The boundary box page p is rendered with under the options: its own bleed
\* box when box_type is Bleed and it has one, else its default crop box.
OwnBox(opts, pg) ==
  IF opts.box_type = "Bleed" /\ pg.has_bleed THEN "bleed" ELSE "crop"

\* A page nothing is wrong with but, maybe, a missing bleed box.
SoundPage(pg) == pg.fetch_ok /\ pg.render_ok /\ pg.encode_ok /\ pg.write_ok

\* C19: the crop box of page q is overridden exactly when box_type is Bleed,
\* q itself has been processed, could be fetched and has a bleed box: no
\* other page's processing touches it, and with box_type Crop no box is ever
\* modified. A rendered page is rendered with its own box whatever was
\* processed before it, and a missing bleed box is no error: the page has the
\* outcome it has with box_type Crop.
C19_BleedBoxStaysOnItsPage ==
  LET e == eng[InProcess]
  IN  eng # <<>> =>
        /\ \A q \in DOMAIN e.crop :
             (e.crop[q] = "bleed") <=>
                /\ e.opts.box_type = "Bleed"
                /\ q \in {e.log[i].page : i \in 1..Len(e.log)}
                /\ doc[q].fetch_ok /\ doc[q].has_bleed
        /\ \A i \in 1..Len(e.log) :
             LET p == e.log[i].page
             IN  /\ e.log[i].outcome = "Rendered" =>
                      files[FileName(p)].data =
                        <<"jpeg", p, OwnBox(e.opts, doc[p]),
                          e.opts.target_width, e.opts.quality>>
                 /\ ~doc[p].has_bleed =>
                      /\ e.log[i].outcome =
                           page_outcome(doc, [e.opts EXCEPT !.box_type = "Crop"], p)
                      /\ (SoundPage(doc[p]) /\ e.opts.encoder = "Image"
                            /\ ~e.opts.extract_images) =>
                           \A k \in 1..Len(e.errors) : e.errors[k].n # p

\* C19 witness: box_type Bleed; the first page has a bleed box and is
\* rendered with it, the second has none and is rendered, after it, with its
\* default crop box.
C19_Witness ==
  LET e == eng[InProcess]
  IN  /\ eng # <<>> /\ e.state = "done" /\ e.opts.box_type = "Bleed"
      /\ e.pages = <<1, 2>>
      /\ doc[1].has_bleed /\ ~doc[2].has_bleed
      /\ e.log[1].outcome = "Rendered" /\ e.log[2].outcome = "Rendered"
      /\ files[FileName(1)].data[3] = "bleed" /\ files[FileName(2)].data[3] = "crop"
      /\ e.crop = <<"bleed", "crop">> /\ e.errors = <<>>

\* C19 witness: box_type Crop, a page with a bleed box keeps its crop box.
C19_WitnessCrop ==
  LET e == eng[InProcess]
  IN  /\ eng # <<>> /\ e.state = "done" /\ e.opts.box_type = "Crop"
      /\ \E i \in 1..Len(e.log) :
           /\ doc[e.log[i].page].has_bleed /\ e.log[i].outcome = "Rendered"
           /\ files[FileName(e.log[i].page)].data[3] = "crop"

\* The ways plan resolution fails, on the inputs of the run.
CannotOpen == open_result # "ok"
ZeroPages == open_result = "ok" /\ Len(doc) = 0
SpecRejected ==
  /\ open_result = "ok" /\ Len(doc) > 0 /\ cli.pages.some
  /\ ~parse_page_range(cli.pages.val, Len(doc)).ok

\* Nothing has happened outside the orchestrator: no directory, no worker,
\* no page attempted, no file, no summary, nothing printed.
NoSideEffect ==
  /\ ~orch.dir_created
  /\ Spawned = {}
  /\ \A u \in DOMAIN eng : eng[u].state = "idle" /\ eng[u].log = <<>>
  /\ \A f \in DOMAIN files : files[f] = NoFile
  /\ orch.summary = <<>> /\ orch.printed = <<>>

\* C20: when the document cannot be opened, has no pages, or the page spec
\* is rejected, the run does nothing but return that error: PdfInvalid (or
\* the error of loading the PDF library) for a document that cannot be
\* opened, PdfInvalid for zero pages, InvalidArgs for a rejected spec.
C20_PlanFailureHasNoSideEffect ==
  (orch # <<>> /\ (CannotOpen \/ ZeroPages \/ SpecRejected)) =>
    /\ NoSideEffect
    /\ orch.pc \in {"start", "done"}
    /\ orch.pc = "done" =>
         /\ CannotOpen => orch.result = open_result
         /\ ZeroPages => orch.result = "PdfInvalid"
         /\ SpecRejected => orch.result = "InvalidArgs"

\* C20 witness: the page spec of a two-page document is rejected.
C20_Witness ==
  /\ orch # <<>> /\ orch.pc = "done" /\ SpecRejected /\ Len(doc) = 2
  /\ orch.result = "InvalidArgs" /\ cli.workers = 2 /\ NoSideEffect

\* C20 witnesses: a document without pages, a document that cannot be opened.
C20_WitnessZeroPages ==
  /\ orch # <<>> /\ orch.pc = "done" /\ ZeroPages
  /\ orch.result = "PdfInvalid" /\ NoSideEffect

C20_WitnessCannotOpen ==
  /\ orch # <<>> /\ orch.pc = "done" /\ open_result = "PdfInvalid" /\ Len(doc) = 2
  /\ orch.result = "PdfInvalid" /\ NoSideEffect

\* C21: result collection cannot deadlock: once collect_worker_results is
\* entered it returns (all children collected, or an I/O error of a wait),
\* for every number of children and every amount of output, also when a
\* later child's write blocks on a full pipe before an earlier child exits.
C21_CollectionFinishes ==
  (orch # <<>> /\ orch.pc = "collecting") ~> (orch.pc \in {"summary", "done"})

\* C21, as a state property: while the orchestrator collects, it or the
\* child it waits for can take a step.
C21_NeverStuck ==
  (orch # <<>> /\ orch.pc = "collecting") =>
    LET u == orch.collected + 1
    IN  \/ procs[u].err_pipe > 0 \/ procs[u].out_pipe > 0
        \/ procs[u].state = "exited"
        \/ procs[u].state = "running" /\ procs[u].err_left > 0 /\ procs[u].err_pipe < PipeCap
        \/ procs[u].state = "running" /\ procs[u].err_left = 0

\* C21 witness: every child was collected; the second one had more output
\* than its pipe holds and blocked on the full pipe while the first was
\* still running; all the output was written and read.
C21_Witness ==
  /\ orch # <<>> /\ orch.pc = "summary" /\ orch.result = "collected"
  /\ orch.collected = 2
  /\ procs[2].stalled
  /\ \A u \in 1..2 :
       /\ procs[u].state = "exited"
       /\ procs[u].err_left = 0 /\ procs[u].out_left = 0
       /\ procs[u].err_pipe = 0 /\ procs[u].out_pipe = 0

\* The page list the command asks for: every page of the document, or the
\* pages its page spec names.
RequestedPages ==
  IF cli.pages.some THEN parse_page_range(cli.pages.val, Len(doc)).pages
  ELSE [p \in 1..Len(doc) |-> p]

\* The file of page p holds a complete image of page p, written once.
WrittenOnce(p) ==
  LET f == files[FileName(p)]
  IN  /\ f.count = 1 /\ Cardinality(f.writers) = 1
      /\ f.data[1] \in {"jpeg", "raw"} /\ f.data[2] = p

\* C22: when run returns Ok, every page of the requested page list has been
\* written to its page-NNNN.jpg, exactly once and completely: a page that
\* was skipped, failed, or lost with a crashed worker makes the run fail.
C22_OkMeansComplete ==
  (orch # <<>> /\ orch.pc = "done" /\ orch.result = "Ok") =>
    /\ orch.page_list = RequestedPages
    /\ orch.page_list # <<>>
    /\ \A p \in Elems(orch.page_list) : WrittenOnce(p)
    /\ orch.summary[1].pages_rendered = Len(orch.page_list)

\* C22 witness: a successful run of two workers on two pages; each file was
\* written by its own worker.
C22_Witness ==
  /\ orch # <<>> /\ orch.pc = "done" /\ orch.result = "Ok"
  /\ orch.effective_workers = 2 /\ orch.page_list = <<1, 2>>
  /\ WrittenOnce(1) /\ WrittenOnce(2)
  /\ files[FileName(1)].writers = {1} /\ files[FileName(2)].writers = {2}

\* C22 witness: a successful in-process run of the one page a spec names.
C22_WitnessSingle ==
  /\ orch # <<>> /\ orch.pc = "done" /\ orch.result = "Ok"
  /\ cli.pages.some /\ orch.page_list = <<2>> /\ Len(doc) = 2
  /\ WrittenOnce(2) /\ files[FileName(2)].writers = {InProcess}
  /\ files[FileName(1)] = NoFile

\* The execution units that ran render_pages for the run: the calling
\* process in the in-process mode, the spawned workers otherwise.
UnitsUsed == IF Spawned = {} THEN {InProcess} ELSE Spawned

\* C23: the workers_used of the summary is the number of execution units
\* that rendered the pages, and is at least 1 when a page was rendered, for
\* every requested worker count.
C23_WorkersUsedCountsUnits ==
  (orch # <<>> /\ orch.summary # <<>>) =>
    /\ orch.summary[1].workers_used = Cardinality(UnitsUsed)
    /\ orch.summary[1].pages_rendered > 0 => orch.summary[1].workers_used >= 1

\* C23, the part the code keeps: for a requested count of at least 1.
C23_HoldsFromOneWorker ==
  (orch # <<>> /\ orch.summary # <<>> /\ cli.workers >= 1) =>
    /\ orch.summary[1].workers_used = Cardinality(UnitsUsed)
    /\ orch.summary[1].workers_used >= 1

=============================================================================
